---- MODULE Spec2Model ----
(***************************************************************************)
(* State-machine model of src/src/App.js: the Secret Garden passcode gate  *)
(* (SecretGardenLock), the page navigation of DivingWebsite that mounts    *)
(* and unmounts it, the suggestion form, and a second tab of the same      *)
(* browser sharing localStorage.                                           *)
(*                                                                         *)
(* Strings are sequences of one-character strings, so that trim(),         *)
(* toString() and parseInt() are computed character by character.          *)
(* localStorage and sessionStorage are functions from the keys that are    *)
(* present to their string values.                                         *)
(***************************************************************************)
EXTENDS Integers, Sequences, FiniteSets

VARIABLES
    now,            \* wall clock, new Date().getTime(), in ms
    advances,       \* number of clock advances made so far (bounds the model)
    ls,             \* localStorage: secretAttempts, secretLockUntil
    ss,             \* sessionStorage: secretUnlocked
    currentPage,    \* DivingWebsite state, line 829
    isTransitioning,\* DivingWebsite state, line 834
    navTimers,      \* pending setTimeout callbacks of handleNavigation, in firing order
    secretUnlocked, \* DivingWebsite state, line 837
    code,           \* SecretGardenLock state, line 567
    attempts,       \* SecretGardenLock state, line 568
    isLocked,       \* SecretGardenLock state, line 569
    lockUntil,      \* SecretGardenLock state, line 570: <<>> is null, <<t>> is t
    wrongRun,       \* history: wrong submissions since the gate was fresh, -1 if another gate event intervened
    lastOp,         \* history: the handler that ran last
    isMobileMenuOpen, \* DivingWebsite state, line 830
    formTitle,      \* DivingWebsite state, suggestionForm.title, line 831
    formEmail,      \* DivingWebsite state, suggestionForm.email, line 831
    formErrors,     \* DivingWebsite state, line 832: a function from the keys present to messages
    isSubmitting,   \* DivingWebsite state, line 833
    submitPending,  \* pending continuations of handleSuggestionSubmit: the page their render showed
    lastArg,        \* history: the page argument of the handler that ran last, "none" without one
    lastTarget,     \* history: the target of the latest navigate call for a page not shown
    otherTab        \* a second tab of the same browser: its sessionStorage and component state

formVars == <<formTitle, formEmail, formErrors, isSubmitting, submitPending>>

vars == <<now, advances, ls, ss, currentPage, isTransitioning, navTimers,
          secretUnlocked, code, attempts, isLocked, lockUntil, wrongRun, lastOp,
          isMobileMenuOpen, formVars, lastArg, lastTarget, otherTab>>

----------------------------------------------------------------------------
(* Bounds of the model *)

MaxAdvances == 4
MaxTimers == 1
(* pending navigation timeouts in the specifications of the navigation and
   of the suggestion form *)
MaxNavTimers == 2

(* the clock value up to which the clock keeps advancing in the
   specifications with fairness and with two tabs *)
MaxNow == 1800000

(* Clock steps: one millisecond, half a minute, one tick short of the lock
   duration, and the whole lock duration. *)
Deltas == {1, 30000, 899999, 900000}

(* Clock steps of the specifications with fairness and with two tabs: half
   the lock duration and the whole lock duration. *)
LiveDeltas == {450000, 900000}

----------------------------------------------------------------------------
(* Program constants *)

MaxAttempts == 5
LockMs == 15 * 60 * 1000
MinuteMs == 60000

Passcode == <<"0","8","0","6","0","7","0","1","2","0","2","5">>
WrongCode == <<"0","0","0","0","0","0","0","0","0","0","0","0">>
BlankCode == <<" ", " ">>
PaddedCode == <<" ">> \o Passcode \o <<" ">>
Codes == {<<>>, BlankCode, WrongCode, Passcode, PaddedCode}

TrueStr == <<"t","r","u","e">>

NavPages == {"home", "about"}
Pages == NavPages \cup {"secret-garden"}

(* the pages of the Header's nav, without secretGarden *)
HeaderPages == {"home", "about", "info", "toMontion"}
AllPages == HeaderPages \cup {"thank-you", "secret-garden"}

(* validateForm's messages *)
TitleMsg == "Please enter your dive suggestion"
EmailMsg == "Please enter a valid email address"

(* values typed into the suggestion form *)
Titles == {<<>>, <<" ">>, <<"x">>}
Emails == {<<>>,
           <<"b","a","d">>,
           <<"a","@","b",".","c","o">>,
           <<"a"," ","@","b",".","c","o">>,
           <<"x"," ","a","@","b",".","c","o">>}

----------------------------------------------------------------------------
(* String functions *)

DigitChars == <<"0","1","2","3","4","5","6","7","8","9">>

RECURSIVE ToString(_)
ToString(n) ==
    IF n < 10 THEN <<DigitChars[n + 1]>>
    ELSE Append(ToString(n \div 10), DigitChars[(n % 10) + 1])

DigitVal(c) == (CHOOSE i \in 1..10 : DigitChars[i] = c) - 1

RECURSIVE ParseInt(_)
ParseInt(s) ==
    IF Len(s) = 1 THEN DigitVal(s[1])
    ELSE 10 * ParseInt(SubSeq(s, 1, Len(s) - 1)) + DigitVal(s[Len(s)])

RECURSIVE TrimLeft(_)
TrimLeft(s) ==
    IF s # <<>> /\ Head(s) = " " THEN TrimLeft(Tail(s)) ELSE s

RECURSIVE TrimRight(_)
TrimRight(s) ==
    IF s # <<>> /\ s[Len(s)] = " " THEN TrimRight(SubSeq(s, 1, Len(s) - 1)) ELSE s

Trim(s) == TrimRight(TrimLeft(s))

(* Math.floor in place of Math.ceil *)
CeilAsFloor(a, b) == a \div b

(* Math.ceil(a / b) for b > 0, a of either sign *)
Ceil(a, b) == -((-a) \div b)

----------------------------------------------------------------------------
(* Storage *)

HasItem(store, k) == k \in DOMAIN store
SetItem(store, k, v) == [x \in DOMAIN store \cup {k} |-> IF x = k THEN v ELSE store[x]]
(* a removeItem that removes nothing *)
RemoveItemKept(store, k) == store

RemoveItem(store, k) == [x \in DOMAIN store \ {k} |-> store[x]]
EmptyStore == [x \in {} |-> <<>>]

(* formErrors = {} *)
NoErrors == [x \in {} |-> ""]

(* secretAttempts as a number, an absent key read as 0 *)
StoredAttempts == IF HasItem(ls, "secretAttempts") THEN ParseInt(ls["secretAttempts"]) ELSE 0

----------------------------------------------------------------------------
(* Rendering *)

(* renderCurrentPage: which component the secret-garden page shows *)
LockMountedAt(page, unlocked) == page = "secret-garden" /\ ~unlocked
lockMounted == LockMountedAt(currentPage, secretUnlocked)
gardenMounted == currentPage = "secret-garden" /\ secretUnlocked

(* renderCurrentPage: the component shown *)
renderCurrentPage ==
    IF currentPage = "secret-garden"
    THEN IF secretUnlocked THEN "SecretGarden" ELSE "SecretGardenLock"
    ELSE IF currentPage \in {"about", "info", "toMontion", "thank-you"}
    THEN currentPage
    ELSE "home"

(* remainingTime of SecretGardenLock *)
remainingTime ==
    IF isLocked /\ lockUntil # <<>> /\ lockUntil[1] # 0
    THEN Ceil(lockUntil[1] - now, MinuteMs)
    ELSE 0

----------------------------------------------------------------------------
(* SecretGardenLock: pure parts of the effects and handlers *)

Truthy(s) == s # <<>>

(* The mount effect "Check if already locked": the component state and the
   storage it leaves, from the storage it finds at time t. *)
InitLockCleared(store, t) ==
    HasItem(store, "secretLockUntil") /\ Truthy(store["secretLockUntil"])
    /\ ~(t < ParseInt(store["secretLockUntil"]))

InitLockActive(store, t) ==
    HasItem(store, "secretLockUntil") /\ Truthy(store["secretLockUntil"])
    /\ t < ParseInt(store["secretLockUntil"])

(* a mount effect that keeps a stored lock time that has passed *)
InitStoreKept(store, t) == store

InitStore(store, t) ==
    IF InitLockCleared(store, t) THEN RemoveItem(store, "secretLockUntil") ELSE store

(* a mount effect that does not load secretAttempts *)
InitAttemptsIgnored(store) == 0

InitAttempts(store) ==
    IF HasItem(store, "secretAttempts") /\ Truthy(store["secretAttempts"])
    THEN ParseInt(store["secretAttempts"])
    ELSE 0

(* the early return without its isLocked test *)
SubmitRejectedBlankOnly(locked, c) == ~Truthy(Trim(c))

(* the early return without the trim of the code *)
SubmitRejectedNoTrim(locked, c) == locked \/ ~Truthy(c)

(* handleSubmit's early return *)
SubmitRejected(locked, c) == locked \/ ~Truthy(Trim(c))

(* the comparison with a mistyped literal *)
CodeAcceptedMistyped(c) == c = WrongCode

(* the comparison after trimming the code *)
CodeAcceptedTrimmed(c) == Trim(c) = Passcode

(* handleSubmit's comparison with the passcode *)
CodeAccepted(c) == c = Passcode

(* the lock condition one attempt early *)
LocksAtEarly(newAttempts) == newAttempts >= MaxAttempts - 1

(* handleSubmit's lock condition on the incremented counter *)
LocksAt(newAttempts) == newAttempts >= MaxAttempts

(* the lock time with the duration in seconds *)
LockTimeSeconds(t) == t + 15 * 60

(* handleSubmit's lock time *)
LockTime(t) == t + LockMs

(* the expiry test with a strict comparison *)
TickExpiredStrict(t, until) == t > until

(* an expiry test that never succeeds *)
TickExpiredNever(t, until) == FALSE

(* the interval callback's expiry test *)
TickExpired(t, until) == t >= until

(* whether the values describe a gate with no failed attempt and no lock *)
FreshGate(a, l, lu, store) ==
    /\ a = 0 /\ ~l /\ lu = <<>>
    /\ ~HasItem(store, "secretAttempts")
    /\ ~HasItem(store, "secretLockUntil")

----------------------------------------------------------------------------
(* Mounting and unmounting of SecretGardenLock when the rendered page or
   secretUnlocked changes: a new instance starts from its useState defaults
   and runs the mount effect; an unmounted instance has no state. *)

LockDefaults ==
    /\ code' = <<>>
    /\ attempts' = 0
    /\ isLocked' = FALSE
    /\ lockUntil' = <<>>

MountLock ==
    /\ code' = <<>>
    /\ isLocked' = InitLockActive(ls, now)
    /\ lockUntil' = IF InitLockActive(ls, now)
                    THEN <<ParseInt(ls["secretLockUntil"])>> ELSE <<>>
    /\ ls' = InitStore(ls, now)
    /\ attempts' = InitAttempts(ls)
    /\ wrongRun' = IF FreshGate(attempts', isLocked', lockUntil', ls') THEN 0 ELSE -1

RenderLock(page, unlocked) ==
    IF LockMountedAt(page, unlocked) /\ ~lockMounted
    THEN MountLock
    ELSE IF ~LockMountedAt(page, unlocked)
    THEN LockDefaults /\ wrongRun' = -1 /\ UNCHANGED ls
    ELSE UNCHANGED <<code, attempts, isLocked, lockUntil, ls, wrongRun>>

----------------------------------------------------------------------------
(* DivingWebsite *)

(* handleNavigation that leaves the transition flag alone *)
handleNavigationFromNoFlag(shown, page) ==
    IF shown = page
    THEN UNCHANGED <<isTransitioning, navTimers>>
    ELSE /\ UNCHANGED isTransitioning
         /\ navTimers' = Append(navTimers, page)

(* handleNavigation without its same-page return *)
handleNavigationFromAlways(shown, page) ==
    /\ isTransitioning' = TRUE
    /\ navTimers' = Append(navTimers, page)

(* handleNavigation that cancels the pending timeouts *)
handleNavigationFromReplace(shown, page) ==
    IF shown = page
    THEN UNCHANGED <<isTransitioning, navTimers>>
    ELSE /\ isTransitioning' = TRUE
         /\ navTimers' = <<page>>

(* handleNavigation that ignores calls during a transition *)
handleNavigationFromGuarded(shown, page) ==
    IF shown = page \/ isTransitioning
    THEN UNCHANGED <<isTransitioning, navTimers>>
    ELSE /\ isTransitioning' = TRUE
         /\ navTimers' = Append(navTimers, page)

(* handleNavigation as created by a render in which currentPage was shown:
   the synchronous part; the timeout callback is NavTimerFire *)
handleNavigationFrom(shown, page) ==
    IF shown = page
    THEN UNCHANGED <<isTransitioning, navTimers>>
    ELSE /\ isTransitioning' = TRUE
         /\ navTimers' = Append(navTimers, page)

(* handleNavigation(page) of the current render *)
handleNavigation(page) == handleNavigationFrom(currentPage, page)

(* history: the target of the latest navigate call for a page other than the
   one its render showed *)
NoteTarget(shown, page) ==
    lastTarget' = IF shown = page THEN lastTarget ELSE page

(* the sessionStorage and the component state of a tab that has just loaded
   the application for the first time *)
LoadedTab ==
    [ss |-> EmptyStore, currentPage |-> "home", isTransitioning |-> FALSE,
     navTimers |-> <<>>, secretUnlocked |-> FALSE, code |-> <<>>,
     attempts |-> 0, isLocked |-> FALSE, lockUntil |-> <<>>]

Init ==
    /\ now = 0
    /\ advances = 0
    /\ ls = EmptyStore
    /\ ss = EmptyStore
    /\ currentPage = "home"
    /\ isTransitioning = FALSE
    /\ navTimers = <<>>
    /\ secretUnlocked = FALSE
    /\ code = <<>>
    /\ attempts = 0
    /\ isLocked = FALSE
    /\ lockUntil = <<>>
    /\ wrongRun = -1
    /\ lastOp = "load"
    /\ isMobileMenuOpen = FALSE
    /\ formTitle = <<>>
    /\ formEmail = <<>>
    /\ formErrors = NoErrors
    /\ isSubmitting = FALSE
    /\ submitPending = <<>>
    /\ lastArg = "none"
    /\ lastTarget = "none"
    /\ otherTab = LoadedTab

(* the clock advances *)
AdvanceTime ==
    /\ advances < MaxAdvances
    /\ \E d \in Deltas : now' = now + d
    /\ advances' = advances + 1
    /\ lastOp' = "clock"
    /\ UNCHANGED otherTab
    /\ lastArg' = "none"
    /\ UNCHANGED <<ls, ss, currentPage, isTransitioning, navTimers, secretUnlocked,
                   code, attempts, isLocked, lockUntil, wrongRun>>
    /\ UNCHANGED <<isMobileMenuOpen, formVars, lastTarget>>

(* onClick of a button that calls handleNavigation(page), with at most maxT
   timeouts pending *)
ClickNavWithin(maxT, pages) ==
    /\ \E page \in pages :
        /\ currentPage # page => Len(navTimers) < maxT
        /\ handleNavigation(page)
        /\ NoteTarget(currentPage, page)
        /\ lastArg' = page
    /\ lastOp' = "nav"
    /\ UNCHANGED otherTab
    /\ UNCHANGED <<now, advances, ls, ss, currentPage, secretUnlocked,
                   code, attempts, isLocked, lockUntil, wrongRun>>
    /\ UNCHANGED <<isMobileMenuOpen, formVars>>

(* Header: onClick of a page other than secretGarden *)
ClickNav == ClickNavWithin(MaxTimers, NavPages)

(* Header: onClick of secretGarden, with at most maxT timeouts pending *)
ClickSecretGardenWithin(maxT) ==
    /\ IF secretUnlocked
       THEN /\ currentPage # "secret-garden" => Len(navTimers) < maxT
            /\ handleNavigation("secret-garden")
            /\ NoteTarget(currentPage, "secret-garden")
            /\ UNCHANGED <<currentPage, code, attempts, isLocked, lockUntil, ls, wrongRun>>
       ELSE /\ currentPage' = "secret-garden"
            /\ RenderLock("secret-garden", secretUnlocked)
            /\ UNCHANGED <<isTransitioning, navTimers, lastTarget>>
    /\ lastOp' = "secret"
    /\ UNCHANGED otherTab
    /\ lastArg' = "secret-garden"
    /\ UNCHANGED <<now, advances, ss, secretUnlocked>>
    /\ UNCHANGED <<isMobileMenuOpen, formVars>>

ClickSecretGarden == ClickSecretGardenWithin(MaxTimers)

(* the setTimeout callback of handleNavigation *)
NavTimerFire ==
    /\ navTimers # <<>>
    /\ currentPage' = Head(navTimers)
    /\ isTransitioning' = FALSE
    /\ isMobileMenuOpen' = FALSE
    /\ navTimers' = Tail(navTimers)
    /\ RenderLock(Head(navTimers), secretUnlocked)
    /\ lastOp' = "timer"
    /\ UNCHANGED otherTab
    /\ lastArg' = Head(navTimers)
    /\ UNCHANGED <<now, advances, ss, secretUnlocked>>
    /\ UNCHANGED <<formVars, lastTarget>>

(* SecretGardenLock: onChange of the passcode input *)
ChangeCode ==
    /\ lockMounted
    /\ \E c \in Codes : code' = c
    /\ lastOp' = "change"
    /\ UNCHANGED otherTab
    /\ lastArg' = "none"
    /\ UNCHANGED <<now, advances, ls, ss, currentPage, isTransitioning, navTimers,
                   secretUnlocked, attempts, isLocked, lockUntil, wrongRun>>
    /\ UNCHANGED <<isMobileMenuOpen, formVars, lastTarget>>

(* SecretGardenLock.handleSubmit, with handleSecretUnlock as onUnlock *)
handleSubmit ==
    /\ lockMounted
    /\ lastOp' = "submit"
    /\ UNCHANGED otherTab
    /\ lastArg' = "none"
    /\ IF SubmitRejected(isLocked, code)
       THEN UNCHANGED <<ls, ss, currentPage, secretUnlocked, code, attempts,
                        isLocked, lockUntil, wrongRun>>
       ELSE IF CodeAccepted(code)
       THEN /\ ss' = SetItem(ss, "secretUnlocked", TrueStr)
            /\ ls' = RemoveItem(ls, "secretAttempts")
            /\ secretUnlocked' = TRUE
            /\ currentPage' = "secret-garden"
            /\ LockDefaults
            /\ wrongRun' = -1
       ELSE LET newAttempts == attempts + 1
                withAttempts == SetItem(ls, "secretAttempts", ToString(newAttempts))
            IN  /\ attempts' = newAttempts
                /\ IF LocksAt(newAttempts)
                   THEN /\ lockUntil' = <<LockTime(now)>>
                        /\ isLocked' = TRUE
                        /\ ls' = SetItem(withAttempts, "secretLockUntil",
                                         ToString(LockTime(now)))
                   ELSE /\ ls' = withAttempts
                        /\ UNCHANGED <<lockUntil, isLocked>>
                /\ code' = <<>>
                /\ wrongRun' = IF wrongRun >= 0 THEN wrongRun + 1 ELSE -1
                /\ UNCHANGED <<ss, currentPage, secretUnlocked>>
    /\ UNCHANGED <<now, advances, isTransitioning, navTimers>>
    /\ UNCHANGED <<isMobileMenuOpen, formVars, lastTarget>>

(* the lockout timer effect: whether its interval is set *)
TimerRunning ==
    lockMounted /\ isLocked /\ lockUntil # <<>> /\ lockUntil[1] # 0

(* SecretGardenLock: the setInterval callback of the lockout timer effect *)
Tick ==
    /\ TimerRunning
    /\ lastOp' = "tick"
    /\ UNCHANGED otherTab
    /\ lastArg' = "none"
    /\ IF TickExpired(now, lockUntil[1])
       THEN /\ isLocked' = FALSE
            /\ lockUntil' = <<>>
            /\ attempts' = 0
            /\ ls' = RemoveItem(RemoveItem(ls, "secretLockUntil"), "secretAttempts")
            /\ wrongRun' = 0
       ELSE UNCHANGED <<isLocked, lockUntil, attempts, ls, wrongRun>>
    /\ UNCHANGED <<now, advances, ss, currentPage, isTransitioning, navTimers,
                   secretUnlocked, code>>
    /\ UNCHANGED <<isMobileMenuOpen, formVars, lastTarget>>

(* Header: onClick of the mobile menu button *)
ToggleMobileMenu ==
    /\ isMobileMenuOpen' = ~isMobileMenuOpen
    /\ lastOp' = "menu"
    /\ UNCHANGED otherTab
    /\ lastArg' = "none"
    /\ UNCHANGED <<now, advances, ls, ss, currentPage, isTransitioning, navTimers,
                   secretUnlocked, code, attempts, isLocked, lockUntil, wrongRun>>
    /\ UNCHANGED <<formVars, lastTarget>>

----------------------------------------------------------------------------
(* The suggestion form of HomePage *)

NonSpace(c) == c # " "

(* the ends j of the runs s[i..j] that \S+ can match from position i *)
RunEnds(s, i) == {j \in i..Len(s) : \A k \in i..j : NonSpace(s[k])}

(* /\S+@\S+\.\S+/ matched from position i *)
MatchesAt(s, i) ==
    \E j \in RunEnds(s, i) :
        /\ j + 1 <= Len(s) /\ s[j + 1] = "@"
        /\ \E k \in RunEnds(s, j + 2) :
            /\ k + 1 <= Len(s) /\ s[k + 1] = "."
            /\ k + 2 <= Len(s) /\ NonSpace(s[k + 2])

(* /\S+@\S+\.\S+/.test(s): a match from any position *)
EmailRegexTest(s) == \E i \in 1..Len(s) : MatchesAt(s, i)

(* validateForm without the trim of the title *)
ValidationErrorsNoTrim(title, email) ==
    [f \in (IF ~Truthy(title) THEN {"title"} ELSE {})
           \cup (IF Truthy(email) /\ ~EmailRegexTest(email) THEN {"email"} ELSE {})
      |-> IF f = "title" THEN TitleMsg ELSE EmailMsg]

(* validateForm: the errors object *)
ValidationErrors(title, email) ==
    [f \in (IF ~Truthy(Trim(title)) THEN {"title"} ELSE {})
           \cup (IF Truthy(email) /\ ~EmailRegexTest(email) THEN {"email"} ELSE {})
      |-> IF f = "title" THEN TitleMsg ELSE EmailMsg]

(* formErrors[field] as a condition *)
HasError(errors, field) == field \in DOMAIN errors /\ errors[field] # ""

(* an input change that drops every error *)
ClearErrorAll(errors, field) == NoErrors

(* handleInputChange: the errors object after a change of field *)
ClearError(errors, field) ==
    IF HasError(errors, field) THEN [errors EXCEPT ![field] = ""] ELSE errors

(* handleInputChange(field, value) *)
handleInputChange ==
    /\ currentPage = "home"
    /\ \E field \in {"title", "email"} :
        /\ IF field = "title"
           THEN (\E v \in Titles : formTitle' = v) /\ UNCHANGED formEmail
           ELSE (\E v \in Emails : formEmail' = v) /\ UNCHANGED formTitle
        /\ formErrors' = ClearError(formErrors, field)
        /\ lastArg' = field
    /\ lastOp' = "input"
    /\ UNCHANGED otherTab
    /\ UNCHANGED <<now, advances, ls, ss, currentPage, isTransitioning, navTimers,
                   secretUnlocked, code, attempts, isLocked, lockUntil, wrongRun>>
    /\ UNCHANGED <<isMobileMenuOpen, isSubmitting, submitPending, lastTarget>>

(* handleSuggestionSubmit up to its await; the submit button is disabled
   while isSubmitting *)
handleSuggestionSubmit ==
    /\ currentPage = "home"
    /\ ~isSubmitting
    /\ formErrors' = ValidationErrors(formTitle, formEmail)
    /\ IF DOMAIN formErrors' = {}
       THEN /\ isSubmitting' = TRUE
            /\ submitPending' = Append(submitPending, currentPage)
       ELSE UNCHANGED <<isSubmitting, submitPending>>
    /\ lastOp' = "suggest"
    /\ UNCHANGED otherTab
    /\ lastArg' = "none"
    /\ UNCHANGED <<now, advances, ls, ss, currentPage, isTransitioning, navTimers,
                   secretUnlocked, code, attempts, isLocked, lockUntil, wrongRun>>
    /\ UNCHANGED <<isMobileMenuOpen, formTitle, formEmail, lastTarget>>

(* handleSuggestionSubmit after its await of 1000 ms: handleNavigation is the
   one of the render that showed the form *)
SubmitResolved ==
    /\ submitPending # <<>>
    /\ Len(navTimers) < MaxNavTimers
    /\ handleNavigationFrom(Head(submitPending), "thank-you")
    /\ NoteTarget(Head(submitPending), "thank-you")
    /\ formTitle' = <<>>
    /\ formEmail' = <<>>
    /\ formErrors' = NoErrors
    /\ isSubmitting' = FALSE
    /\ submitPending' = Tail(submitPending)
    /\ lastOp' = "resolved"
    /\ UNCHANGED otherTab
    /\ lastArg' = "thank-you"
    /\ UNCHANGED <<now, advances, ls, ss, currentPage, secretUnlocked,
                   code, attempts, isLocked, lockUntil, wrongRun>>
    /\ UNCHANGED isMobileMenuOpen

(* an init effect that does not read sessionStorage *)
SessionUnlockedNever(store) == FALSE

(* the secretUnlocked init effect: what it reads from sessionStorage *)
SessionUnlocked(store) ==
    HasItem(store, "secretUnlocked") /\ store["secretUnlocked"] = TrueStr

(* a page load: DivingWebsite starts from its useState defaults and runs its
   mount effect; both storages are kept; pending timeouts and promises of the
   old page are gone *)
LoadApp ==
    /\ currentPage' = "home"
    /\ isTransitioning' = FALSE
    /\ navTimers' = <<>>
    /\ secretUnlocked' = SessionUnlocked(ss')
    /\ LockDefaults
    /\ wrongRun' = -1
    /\ isMobileMenuOpen' = FALSE
    /\ formTitle' = <<>>
    /\ formEmail' = <<>>
    /\ formErrors' = NoErrors
    /\ isSubmitting' = FALSE
    /\ submitPending' = <<>>
    /\ lastArg' = "none"
    /\ lastTarget' = "none"

(* the browser reloads the page *)
Reload ==
    /\ UNCHANGED <<ss, ls, now, advances>>
    /\ LoadApp
    /\ lastOp' = "reload"
    /\ UNCHANGED otherTab

(* SecretGarden.handleReturn *)
handleReturn ==
    /\ gardenMounted
    /\ ss' = RemoveItem(ss, "secretUnlocked")
    /\ UNCHANGED <<ls, now, advances>>
    /\ LoadApp
    /\ lastOp' = "return"
    /\ UNCHANGED otherTab

Next ==
    \/ AdvanceTime
    \/ ClickNav
    \/ ClickSecretGarden
    \/ NavTimerFire
    \/ ChangeCode
    \/ handleSubmit
    \/ Tick
    \/ Reload
    \/ handleReturn

Spec == Init /\ [][Next]_vars

----------------------------------------------------------------------------
(* The navigation with the gate, at a fixed clock *)

NavClick == ClickNavWithin(MaxNavTimers, HeaderPages)
NavClickSecretGarden == ClickSecretGardenWithin(MaxNavTimers)

NextNav ==
    \/ NavClick
    \/ NavClickSecretGarden
    \/ NavTimerFire
    \/ ToggleMobileMenu
    \/ ChangeCode
    \/ handleSubmit
    \/ Reload
    \/ handleReturn

SpecNav == Init /\ [][NextNav]_vars

(* The suggestion form with the navigation *)

FormClick == ClickNavWithin(MaxNavTimers, NavPages)

NextForm ==
    \/ handleInputChange
    \/ handleSuggestionSubmit
    \/ SubmitResolved
    \/ FormClick
    \/ NavTimerFire
    \/ Reload

SpecForm == Init /\ [][NextForm]_vars

(* The gate with a clock that keeps advancing and an interval that keeps
   firing *)

(* the clock advances, as long as it has not passed MaxNow *)
LiveClock ==
    /\ now < MaxNow
    /\ \E d \in LiveDeltas : now' = now + d
    /\ lastOp' = "clock"
    /\ lastArg' = "none"
    /\ UNCHANGED <<advances, ls, ss, currentPage, isTransitioning, navTimers,
                   secretUnlocked, code, attempts, isLocked, lockUntil, wrongRun>>
    /\ UNCHANGED <<isMobileMenuOpen, formVars, lastTarget, otherTab>>

NextLive ==
    \/ LiveClock
    \/ ClickSecretGarden
    \/ ChangeCode
    \/ handleSubmit
    \/ Tick
    \/ Reload

SpecLive ==
    Init /\ [][NextLive]_vars /\ WF_vars(LiveClock) /\ WF_vars(Tick)

(* The navigation with timeouts that fire *)

SpecNavFair == Init /\ [][NextNav]_vars /\ WF_vars(NavTimerFire)

(* Two tabs of one browser: localStorage and the clock are shared,
   sessionStorage and the component state are per tab *)

(* the user turns to the other tab: the handlers that run next are its own *)
SwitchTab ==
    /\ otherTab' = [ss |-> ss, currentPage |-> currentPage,
                    isTransitioning |-> isTransitioning, navTimers |-> navTimers,
                    secretUnlocked |-> secretUnlocked, code |-> code,
                    attempts |-> attempts, isLocked |-> isLocked,
                    lockUntil |-> lockUntil]
    /\ ss' = otherTab.ss
    /\ currentPage' = otherTab.currentPage
    /\ isTransitioning' = otherTab.isTransitioning
    /\ navTimers' = otherTab.navTimers
    /\ secretUnlocked' = otherTab.secretUnlocked
    /\ code' = otherTab.code
    /\ attempts' = otherTab.attempts
    /\ isLocked' = otherTab.isLocked
    /\ lockUntil' = otherTab.lockUntil
    /\ wrongRun' = -1
    /\ lastOp' = "switch"
    /\ lastArg' = "none"
    /\ UNCHANGED <<now, advances, ls, isMobileMenuOpen, formVars, lastTarget>>

NextTabs ==
    \/ LiveClock
    \/ ClickSecretGarden
    \/ NavTimerFire
    \/ ChangeCode
    \/ handleSubmit
    \/ Tick
    \/ Reload
    \/ handleReturn
    \/ SwitchTab

SpecTabs == Init /\ [][NextTabs]_vars

TypeOK ==
    /\ now \in Nat /\ advances \in 0..MaxAdvances
    /\ DOMAIN ls \subseteq {"secretAttempts", "secretLockUntil"}
    /\ DOMAIN ss \subseteq {"secretUnlocked"}
    /\ currentPage \in AllPages
    /\ isTransitioning \in BOOLEAN
    /\ Len(navTimers) <= MaxNavTimers
    /\ secretUnlocked \in BOOLEAN
    /\ code \in Codes
    /\ attempts \in Nat
    /\ isLocked \in BOOLEAN
    /\ Len(lockUntil) <= 1
    /\ wrongRun \in -1..MaxAttempts
    /\ isMobileMenuOpen \in BOOLEAN
    /\ formTitle \in Titles /\ formEmail \in Emails
    /\ DOMAIN formErrors \subseteq {"title", "email"}
    /\ isSubmitting \in BOOLEAN
    /\ isSubmitting <=> submitPending # <<>>
    /\ lastArg \in AllPages \cup {"none", "title", "email"}
    /\ lastTarget \in AllPages \cup {"none"}
    /\ DOMAIN otherTab = DOMAIN LoadedTab

----------------------------------------------------------------------------
(* Steps named by the handler that took them *)

SubmitStep == lastOp' = "submit"
TickStep == lastOp' = "tick"
(* a step that mounts a new SecretGardenLock, which runs its mount effect *)
MountStep == ~lockMounted /\ lockMounted'
(* the stored lock time, when one is stored *)
StoredLockUntil == ParseInt(ls["secretLockUntil"])

----------------------------------------------------------------------------
(* C1: from a fresh gate, after k <= 4 wrong submissions with no other gate
   event in between, attempts is k in memory and in secretAttempts, and no
   lockout is set in memory or in storage. *)
C1_FewWrongSubmissionsCounted ==
    wrongRun \in 0..4 =>
        /\ attempts = wrongRun
        /\ StoredAttempts = wrongRun
        /\ wrongRun > 0 => HasItem(ls, "secretAttempts")
        /\ ~isLocked
        /\ lockUntil = <<>>
        /\ ~HasItem(ls, "secretLockUntil")

C1_Witness ==
    lockMounted /\ lastOp = "submit" /\ wrongRun = 4 /\ attempts = 4

(* C2: submitting the exact passcode at an unlocked gate with N < 5 counted
   attempts grants access (secretUnlocked state and session key set, gated
   content shown) and removes secretAttempts. *)
C2_CorrectCodeGrants ==
    [][(SubmitStep /\ lockMounted /\ ~isLocked /\ code = Passcode /\ attempts \in 0..4)
        => /\ secretUnlocked'
           /\ HasItem(ss', "secretUnlocked")
           /\ ss'["secretUnlocked"] = <<"t","r","u","e">>
           /\ gardenMounted'
           /\ ~HasItem(ls', "secretAttempts")]_vars

C2_Witness ==
    /\ lastOp = "submit" /\ gardenMounted
    /\ HasItem(ss, "secretUnlocked") /\ ~HasItem(ls, "secretAttempts")

(* C3: the 5th consecutive wrong submission, made at time now, locks the gate
   until exactly now + 900000, in memory and in secretLockUntil, with
   attempts = 5. *)
C3_FifthWrongLocks ==
    [][(SubmitStep /\ wrongRun = 4 /\ wrongRun' = 5)
        => /\ attempts' = 5
           /\ StoredAttempts' = 5
           /\ isLocked'
           /\ lockUntil' = <<now + 900000>>
           /\ HasItem(ls', "secretLockUntil")
           /\ StoredLockUntil' = now + 900000]_vars

C3_Witness ==
    /\ lastOp = "submit" /\ wrongRun = 5 /\ isLocked
    /\ HasItem(ls, "secretLockUntil")

(* C4: while the gate is locked every submission, the exact passcode
   included, changes nothing of the gate; a mounted gate stays locked until a
   tick observes now >= lockUntil. *)
C4_LockedRejectsAll ==
    [][/\ (SubmitStep /\ lockMounted /\ isLocked)
            => UNCHANGED <<attempts, isLocked, lockUntil, ls, ss, secretUnlocked, currentPage>>
       /\ (lockMounted /\ isLocked /\ lockMounted' /\ ~isLocked')
            => (TickStep /\ now >= lockUntil[1])]_vars

C4_Witness ==
    /\ lastOp = "submit" /\ lockMounted /\ isLocked
    /\ code = Passcode /\ now < lockUntil[1]

(* C5: the attempt counter, in memory and in secretAttempts, is always in
   the range 0..5. *)
C5_AttemptsInRange ==
    attempts \in 0..5 /\ StoredAttempts \in 0..5

(* C6: every lockout expiry (by the tick, or by the mount effect finding a
   stored lock time that has passed) and every successful unlock leave
   attempts = 0, and no other step lowers the counter. *)
C6_ResetExactlyOnSuccessOrExpiry ==
    [][/\ (TickStep /\ now >= lockUntil[1])
            => (attempts' = 0 /\ StoredAttempts' = 0)
       /\ (MountStep /\ HasItem(ls, "secretLockUntil") /\ now >= StoredLockUntil)
            => (attempts' = 0 /\ StoredAttempts' = 0)
       /\ (SubmitStep /\ secretUnlocked' /\ ~secretUnlocked)
            => StoredAttempts' = 0
       /\ (StoredAttempts' < StoredAttempts)
            => \/ TickStep /\ now >= lockUntil[1]
               \/ SubmitStep /\ secretUnlocked' /\ ~secretUnlocked
               \/ MountStep /\ HasItem(ls, "secretLockUntil") /\ now >= StoredLockUntil]_vars

(* C7: when the lock screen mounts and the stored lock time is in the past,
   afterwards neither secretLockUntil nor secretAttempts is stored and the
   gate has attempts = 0 and is not locked. *)
C7_InitClearsBothFields ==
    [][(MountStep /\ HasItem(ls, "secretLockUntil") /\ StoredLockUntil < now)
        => /\ ~HasItem(ls', "secretLockUntil")
           /\ ~HasItem(ls', "secretAttempts")
           /\ attempts' = 0
           /\ ~isLocked']_vars

(* C8: a step stores a lock time if and only if it is a wrong submission
   that raises attempts from 4 to 5. *)
C8_LockSetExactlyAtFive ==
    [][(HasItem(ls', "secretLockUntil")
          /\ (HasItem(ls, "secretLockUntil") => ls'["secretLockUntil"] # ls["secretLockUntil"]))
        <=> (SubmitStep /\ attempts = 4 /\ attempts' = 5)]_vars

(* C9: a tick at a locked gate with now >= lockUntil clears attempts and the
   lock in memory and removes secretAttempts and secretLockUntil; a tick with
   now < lockUntil changes nothing of the gate. *)
C9_TickClearsOrLeaves ==
    [][/\ (TickStep /\ isLocked /\ now >= lockUntil[1])
            => /\ attempts' = 0 /\ lockUntil' = <<>> /\ ~isLocked'
               /\ ~HasItem(ls', "secretAttempts")
               /\ ~HasItem(ls', "secretLockUntil")
               /\ UNCHANGED <<ss, secretUnlocked, currentPage>>
       /\ (TickStep /\ isLocked /\ now < lockUntil[1])
            => UNCHANGED <<attempts, isLocked, lockUntil, ls, ss, secretUnlocked,
                           currentPage, code>>]_vars

C9_Witness ==
    /\ lastOp = "tick" /\ lockMounted /\ ~isLocked /\ attempts = 0
    /\ lockUntil = <<>> /\ DOMAIN ls = {} /\ now >= 900000

(* C10: while locked remainingTime is the least integer r with
   r * 60000 >= lockUntil - now, and it is 0 when not locked; it does not
   increase while the clock advances under an unchanged lock. *)
C10_RemainingMinutes ==
    /\ [](/\ isLocked => /\ remainingTime * 60000 >= lockUntil[1] - now
                         /\ (remainingTime - 1) * 60000 < lockUntil[1] - now
          /\ ~isLocked => remainingTime = 0)
    /\ [][(isLocked /\ isLocked' /\ lockUntil' = lockUntil /\ now' >= now)
            => remainingTime' <= remainingTime]_vars

C10_Witness ==
    isLocked /\ lockUntil[1] - now = 1 /\ remainingTime = 1

----------------------------------------------------------------------------
(* Steps of the navigation and of the form *)

NavStep == lastOp' = "nav"
SecretStep == lastOp' = "secret"
TimerStep == lastOp' = "timer"
LoadStep == lastOp' \in {"reload", "return"}
SuggestStep == lastOp' = "suggest"
ResolvedStep == lastOp' = "resolved"

(* C11: navigate(target) with target # currentPage and no transition in
   flight sets isTransitioning and leaves currentPage, with one timer
   pending; when that timer fires, currentPage = target and isTransitioning =
   FALSE in the same step. *)
C11_NavigateThenTimer ==
    [][/\ (NavStep /\ lastArg' # currentPage /\ ~isTransitioning /\ navTimers = <<>>)
            => /\ isTransitioning'
               /\ currentPage' = currentPage
               /\ navTimers' = <<lastArg'>>
       /\ (TimerStep /\ Len(navTimers) = 1)
            => /\ currentPage' = navTimers[1]
               /\ ~isTransitioning'
               /\ navTimers' = <<>>]_vars

C11_Witness ==
    /\ lastOp = "timer" /\ currentPage = "about" /\ lastTarget = "about"
    /\ ~isTransitioning /\ navTimers = <<>>

(* C12: navigate(target) with target = currentPage changes none of
   currentPage, isTransitioning, the mobile-menu flag and the pending
   timers, also during a transition. *)
C12_SamePageNoOp ==
    [][(\/ NavStep /\ lastArg' = currentPage
        \/ SecretStep /\ secretUnlocked /\ currentPage = "secret-garden")
        => UNCHANGED <<currentPage, isTransitioning, isMobileMenuOpen, navTimers>>]_vars

C12_Witness ==
    /\ lastOp = "nav" /\ lastArg = currentPage
    /\ isTransitioning /\ navTimers # <<>> /\ isMobileMenuOpen

(* C13: while isTransitioning is and stays true, currentPage does not
   change. *)
C13_PageFixedWhileTransitioning ==
    [][(isTransitioning /\ isTransitioning') => currentPage' = currentPage]_vars

(* C14: apart from a page load, every change of currentPage is the firing of
   a navigation timer. *)
C14_PageChangesOnlyByNavigate ==
    [][(currentPage' # currentPage /\ ~LoadStep) => TimerStep]_vars

(* C15: a navigate call for a page not shown, made during a transition,
   adds its own timer and cancels none; when the last pending timer has
   fired, currentPage is the target of the latest such call. *)
C15_LastTimerWins ==
    [][/\ ((NavStep \/ (SecretStep /\ secretUnlocked))
             /\ navTimers # <<>> /\ lastArg' # currentPage)
            => navTimers' = Append(navTimers, lastArg')
       /\ (TimerStep /\ navTimers' = <<>>) => currentPage' = lastTarget]_vars

C15_Witness ==
    /\ lastOp = "nav" /\ Len(navTimers) = 2 /\ navTimers[1] # navTimers[2]
    /\ lastTarget = navTimers[2] /\ currentPage # navTimers[2]

(* C16: a click on the Secret Garden entry from another page goes through
   navigate, whatever secretUnlocked is: the page stays, isTransitioning is
   set and a timer for secret-garden is pending. *)
C16_GatedRouteThroughNavigate ==
    [][(SecretStep /\ currentPage # "secret-garden")
        => /\ currentPage' = currentPage
           /\ isTransitioning'
           /\ navTimers' = Append(navTimers, "secret-garden")]_vars

C18_DurableAcrossRemount ==
    [][/\ (MountStep /\ HasItem(ls, "secretLockUntil") /\ now < StoredLockUntil)
            => /\ isLocked' /\ lockUntil' = <<StoredLockUntil>>
               /\ attempts' = StoredAttempts
               /\ ls' = ls
       /\ (MountStep /\ ~HasItem(ls, "secretLockUntil"))
            => /\ ~isLocked' /\ attempts' = StoredAttempts
               /\ ls' = ls
       /\ (ls' # ls)
            => \/ SubmitStep
               \/ TickStep /\ now >= lockUntil[1]
               \/ MountStep /\ HasItem(ls, "secretLockUntil") /\ now >= StoredLockUntil]_vars

C18_Witness ==
    /\ lockMounted /\ lastOp = "secret" /\ wrongRun = -1
    /\ isLocked /\ attempts = 5 /\ now > 0 /\ now < lockUntil[1]

(* the suggestion form's inputs, stated without the model's operators *)
TitleBlank == \A i \in 1..Len(formTitle) : formTitle[i] = " "
EmailShaped ==
    \E a, d \in 1..Len(formEmail) :
        /\ formEmail[a] = "@" /\ formEmail[d] = "."
        /\ 1 < a /\ a + 1 < d /\ d < Len(formEmail)
        /\ formEmail[a - 1] # " " /\ formEmail[d + 1] # " "
        /\ \A i \in (a + 1)..(d - 1) : formEmail[i] # " "
FormValid == ~TitleBlank /\ (formEmail = <<>> \/ EmailShaped)

(* C19: validation gives an error on title exactly when title is blank
   after trimming, and an error on email exactly when email is non-empty and
   contains no local@domain.tld; the form is valid iff there is no error. *)
C19_ValidateForm ==
    [][SuggestStep =>
        /\ ("title" \in DOMAIN formErrors') <=> TitleBlank
        /\ ("email" \in DOMAIN formErrors') <=> (formEmail # <<>> /\ ~EmailShaped)
        /\ isSubmitting' <=> (DOMAIN formErrors' = {})
        /\ (formTitle = <<>> /\ formEmail = <<>>) => DOMAIN formErrors' = {"title"}
        /\ (formTitle = <<"x">> /\ formEmail = <<"b","a","d">>)
              => DOMAIN formErrors' = {"email"}
        /\ (formTitle = <<"x">> /\ formEmail = <<"a","@","b",".","c","o">>)
              => DOMAIN formErrors' = {}]_vars

C19_Witness ==
    /\ lastOp = "suggest" /\ formTitle = <<"x">> /\ formEmail = <<"b","a","d">>
    /\ DOMAIN formErrors = {"email"} /\ ~isSubmitting

(* C20: a submission of a valid form sets isSubmitting; its continuation
   starts a navigation to thank-you, empties the form, clears the errors and
   resets isSubmitting; a submission of an invalid form changes none of
   isSubmitting, the page and the form fields. *)
C20_SubmissionSucceeds ==
    [][/\ (SuggestStep /\ FormValid)
            => /\ isSubmitting' /\ submitPending' # <<>>
               /\ UNCHANGED <<currentPage, formTitle, formEmail>>
       /\ ResolvedStep
            => /\ isTransitioning'
               /\ navTimers' = Append(navTimers, "thank-you")
               /\ formTitle' = <<>> /\ formEmail' = <<>>
               /\ DOMAIN formErrors' = {}
               /\ ~isSubmitting'
       /\ (SuggestStep /\ ~FormValid)
            => UNCHANGED <<isSubmitting, submitPending, currentPage, isTransitioning,
                           navTimers, formTitle, formEmail>>]_vars

C20_Witness ==
    /\ lastOp = "timer" /\ currentPage = "thank-you" /\ ~isSubmitting
    /\ formTitle = <<>> /\ formEmail = <<>>

----------------------------------------------------------------------------
InputStep == lastOp' = "input"

(* C21: a change of field f leaves f without a shown error and leaves the
   error of the other field, present or absent, as it was; after a failed
   validation with both errors, changing the title keeps the email error. *)
C21_ErrorClearedPerField ==
    [][InputStep =>
        /\ ~HasError(formErrors', lastArg')
        /\ \A g \in {"title", "email"} \ {lastArg'} :
              /\ (g \in DOMAIN formErrors') <=> (g \in DOMAIN formErrors)
              /\ g \in DOMAIN formErrors => formErrors'[g] = formErrors[g]]_vars

C21_Witness ==
    /\ lastOp = "input" /\ lastArg = "title"
    /\ "title" \in DOMAIN formErrors /\ formErrors["title"] = ""
    /\ HasError(formErrors, "email")
    /\ formErrors["email"] = "Please enter a valid email address"

----------------------------------------------------------------------------
(* the typed code has no character other than spaces *)
CodeBlank == \A i \in 1..Len(code) : code[i] = " "

(* C22: a submission of an empty or whitespace-only code changes none of
   attempts, the lock and the storage keys, so it never locks the gate; at a
   gate that is not locked, a submission of a non-blank code other than the
   12-character passcode, the passcode with surrounding spaces included, is
   counted: attempts and secretAttempts go up by one and no access is
   granted. *)
C22_BlankRejectedOthersCounted ==
    [][/\ (SubmitStep /\ lockMounted /\ CodeBlank)
            => UNCHANGED <<attempts, isLocked, lockUntil, ls, ss, secretUnlocked,
                           currentPage>>
       /\ (SubmitStep /\ lockMounted /\ ~isLocked /\ ~CodeBlank
              /\ code # <<"0","8","0","6","0","7","0","1","2","0","2","5">>)
            => /\ attempts' = attempts + 1
               /\ HasItem(ls', "secretAttempts")
               /\ StoredAttempts' = attempts + 1
               /\ ~secretUnlocked'
               /\ ss' = ss]_vars

C22_Witness ==
    /\ lastOp = "submit" /\ lockMounted /\ code = <<" ", " ">>
    /\ attempts = 4 /\ ~isLocked /\ ~HasItem(ls, "secretLockUntil")

----------------------------------------------------------------------------
(* the session key secretUnlocked holds 'true' *)
SessionKeySet(store) ==
    "secretUnlocked" \in DOMAIN store /\ store["secretUnlocked"] = <<"t","r","u","e">>

(* a submission of the exact passcode at a gate that is not locked *)
PasscodeSubmitStep ==
    /\ SubmitStep /\ lockMounted /\ ~isLocked
    /\ code = <<"0","8","0","6","0","7","0","1","2","0","2","5">>

(* C23: the gated content is rendered only while secretUnlocked is true;
   secretUnlocked is true only while the session key holds 'true'; both
   become true only by a submission of the exact passcode at a gate that is
   not locked, and a load leaves secretUnlocked true only from a session
   key that was already set. *)
C23_GatedContentOnlyAfterPasscode ==
    /\ [](renderCurrentPage = "SecretGarden" => secretUnlocked)
    /\ [](secretUnlocked => SessionKeySet(ss))
    /\ [][/\ (secretUnlocked' /\ ~secretUnlocked) => PasscodeSubmitStep
          /\ (SessionKeySet(ss') /\ ~SessionKeySet(ss)) => PasscodeSubmitStep
          /\ (LoadStep /\ secretUnlocked') => SessionKeySet(ss)]_vars

C23_Witness ==
    /\ renderCurrentPage = "SecretGarden" /\ lastOp = "timer"
    /\ lastArg = "secret-garden" /\ SessionKeySet(ss)

----------------------------------------------------------------------------
(* C24: a locked gate whose lock time the clock reaches, with the lock
   screen staying mounted and the interval firing, is eventually unlocked
   with attempts = 0 and no interval set; the tick that observes
   now >= lockUntil does this in one step, and a tick runs only while the
   interval is set. *)
C24_LockoutExpiryLive ==
    /\ (lockMounted /\ isLocked /\ lockUntil[1] <= MaxNow)
          ~> (~lockMounted \/ (~isLocked /\ attempts = 0 /\ ~TimerRunning))
    /\ [][/\ (TickStep /\ now >= lockUntil[1])
                => (~isLocked' /\ attempts' = 0 /\ lockUntil' = <<>> /\ ~TimerRunning')
          /\ TickStep => TimerRunning]_vars

C24_Witness ==
    /\ lastOp = "tick" /\ lockMounted /\ ~isLocked /\ attempts = 0
    /\ ~TimerRunning /\ now \in 900000..MaxNow
    /\ ~HasItem(ls, "secretLockUntil")

----------------------------------------------------------------------------
(* C25: in a single tab, whenever the lock screen is mounted, attempts
   equals the stored secretAttempts (absent read as 0), isLocked holds
   exactly when lockUntil is non-null, and lockUntil is non-null exactly when
   secretLockUntil is stored, with the same value. *)
C25_MemoryAgreesWithStorage ==
    lockMounted =>
        /\ attempts = StoredAttempts
        /\ isLocked <=> lockUntil # <<>>
        /\ lockUntil # <<>> <=> HasItem(ls, "secretLockUntil")
        /\ lockUntil # <<>> => lockUntil[1] = StoredLockUntil

C25_Witness ==
    /\ lockMounted /\ lastOp = "secret" /\ ~isLocked /\ lockUntil = <<>>
    /\ attempts = 5 /\ StoredAttempts = 5 /\ ~HasItem(ls, "secretLockUntil")

----------------------------------------------------------------------------
(* C26: whenever a navigation timer is pending, isTransitioning is true, and
   currentPage changes, apart from a page load, only in a step that starts
   with isTransitioning true. *)
C26_PendingTimerImpliesTransitioning ==
    /\ [](navTimers # <<>> => isTransitioning)
    /\ [][(currentPage' # currentPage /\ TimerStep) => isTransitioning]_vars

----------------------------------------------------------------------------
(* C27: in every state isTransitioning implies that a navigation timer is
   pending, and, with every pending timer eventually firing, every state with
   isTransitioning true is followed by a state with isTransitioning false
   and no timer pending. *)
C27_TransitionSettles ==
    /\ [](isTransitioning => navTimers # <<>>)
    /\ isTransitioning ~> (~isTransitioning /\ navTimers = <<>>)

----------------------------------------------------------------------------
(* C28: whenever the lock screen shows the lockout message (isLocked), the
   remaining minutes it shows are in 1..15. *)
C28_RemainingInRange ==
    (lockMounted /\ isLocked) => remainingTime \in 1..15

----------------------------------------------------------------------------
ReturnStep == lastOp' = "return"

(* C29: handleReturn removes the session key and reloads: afterwards
   currentPage = 'home', isTransitioning and secretUnlocked are false, no
   timer is pending and localStorage is as before; a click on the Secret
   Garden entry while secretUnlocked is false shows the lock screen. *)
C29_ReturnRelocks ==
    [][/\ ReturnStep
            => /\ ~HasItem(ss', "secretUnlocked")
               /\ currentPage' = "home"
               /\ ~isTransitioning'
               /\ navTimers' = <<>>
               /\ ~secretUnlocked'
               /\ ls' = ls
       /\ (SecretStep /\ ~secretUnlocked)
            => (renderCurrentPage' = "SecretGardenLock" /\ ~secretUnlocked')]_vars

C29_Witness ==
    /\ lastOp = "return" /\ currentPage = "home" /\ ~secretUnlocked
    /\ ~HasItem(ss, "secretUnlocked") /\ ~isTransitioning
    /\ HasItem(ls, "secretAttempts") /\ HasItem(ls, "secretLockUntil")

----------------------------------------------------------------------------
(* C30: with two tabs, while a stored secretLockUntil lies in the future no
   submission in either tab grants access or changes the stored attempts,
   and no submission that grants no access lowers the stored
   secretAttempts. *)
C30_StoredLockBindsBothTabs ==
    [][/\ (SubmitStep /\ HasItem(ls, "secretLockUntil") /\ now < StoredLockUntil)
            => /\ secretUnlocked' = secretUnlocked
               /\ ss' = ss
               /\ StoredAttempts' = StoredAttempts
       /\ (SubmitStep /\ secretUnlocked' = secretUnlocked)
            => StoredAttempts' >= StoredAttempts]_vars

====
